---- MODULE Spec2Model ----
(***************************************************************************)
(* The resolved-AST rewrite driver of zetasql/analyzer/rewrite_resolved_ast.cc *)
(* as a state machine: InternalRewriteResolvedAst and the function it wraps,   *)
(* InternalRewriteResolvedAstNoConvertErrorLocation, one action per step of   *)
(* the driver (a step ends at each call into a collaborator).                 *)
(*                                                                         *)
(* A resolved AST is abstracted to what the driver can observe of it: which *)
(* kind of root it is, which rewrite patterns occur in it, and whether it   *)
(* still is the tree the analyzer output held at entry.                     *)
(***************************************************************************)
EXTENDS Integers, Sequences, FiniteSets, TLC

(* ------------------------------ bounds --------------------------------- *)

\* Longest leading / trailing user rewriter list.
MaxUserRewriters == 1
\* Largest max_column_id of the analyzer output at entry.
MaxColumnId == 1
\* Most column ids the rewriters of one driver call draw from the sequence.
MaxDraws == 1
\* Largest max_column_id and largest position of the fallback sequence when
\* the options bundle is built on its own.
MaxStart == 7
\* Longest argument list of a function call of a resolved expression.
MaxArgs == 2
\* Longest hint list of a function call.
MaxHints == 1

(* ------------------------- program constants --------------------------- *)

kMaxIterations == 25

REWRITE_ANONYMIZATION == "REWRITE_ANONYMIZATION"
REWRITE_NULLIFERROR_FUNCTION == "REWRITE_NULLIFERROR_FUNCTION"
REWRITE_OTHER == "REWRITE_OTHER"

\* ResolvedASTRewrite: the closed set of rule identifiers.
ResolvedASTRewrite ==
  {REWRITE_ANONYMIZATION, REWRITE_NULLIFERROR_FUNCTION, REWRITE_OTHER}

(* ------------------------------ trees ---------------------------------- *)

\* std::unique_ptr<const ResolvedNode> holding nullptr.
NullNode == [kind |-> "null", pats |-> {}, rewritten |-> FALSE]

\* A resolved tree: a statement or an expression, the rewrite patterns that
\* occur in it, and whether a rewriter built it (FALSE: the entry root).
ResolvedNode(kind, pats, rewritten) ==
  [kind |-> kind, pats |-> pats, rewritten |-> rewritten]

NodeKinds == {"stmt", "expr"}

(* ------------------------------ status --------------------------------- *)

OkStatus == [code |-> "OK", origin |-> "", limit |-> 0, rule |-> ""]
NoStatus == [code |-> "NONE", origin |-> "", limit |-> 0, rule |-> ""]

\* An error status: its absl code, where it was produced, and what its
\* message names (the iteration limit, the rule).
ErrorStatus(code, origin) ==
  [code |-> code, origin |-> origin, limit |-> 0, rule |-> ""]

\* absl::ResourceExhaustedError(StrCat("... iterations (", kMaxIterations, ...
ResourceExhaustedError ==
  [code |-> "RESOURCE_EXHAUSTED", origin |-> "iteration_cap",
   limit |-> kMaxIterations, rule |-> ""]

\* ZETASQL_RET_CHECK(rewriter != nullptr) << ... ResolvedASTRewrite_Name(ast_rewrite)
MissingRewriterError(rule) ==
  [code |-> "INTERNAL", origin |-> "missing_rewriter", limit |-> 0,
   rule |-> rule]

IsError(s) == s.code \notin {"OK", "NONE"}

(* ----------------------------- state ----------------------------------- *)

VARIABLES
  analyzer_options,          \* enabled_rewrites, leading/trailing rewriters,
                             \* column_id_sequence_number
  flags,                     \* zetasql_disable_rewriter_checker, ZETASQL_DEBUG_MODE
  registry,                  \* RewriteRegistry: registration order, rewriters
  analyzer_output,           \* root, max_column_id, output properties
  runtime_info,              \* rewriters_timed_value accumulations, and the
                             \* rewriters_details counts of the followed rules
  caller_sequence,           \* the caller's SequenceNumber (next value)
  draws_wanted,              \* column ids the rewriters of this call ask for
  fallback_sequence_number,  \* the driver's local SequenceNumber (next value)
  options_for_rewrite,       \* the lazily built options bundle
  last_rewrite_result,       \* the current tree slot
  rewrites_to_apply,         \* R_apply
  iterations,                \* sweeps started
  idx,                       \* position in the list the driver iterates
  pc,                        \* the driver's position
  status,                    \* the status being returned
  converted,                 \* passes through the error-location conversion
  entry,                     \* what the output and the caller's sequence
                             \* were at entry
  sweep_apply,               \* R_apply at the start of the current sweep
  sweep_log,                 \* rules invoked in the current sweep, in order
  swept,                     \* whether the convergence loop ran a sweep
  sweeps_with,               \* per followed rule: the sweeps that began with it
                             \* in rewrites_to_apply
  invoked,                   \* whether any rewriter was invoked
  scanned,                   \* whether the relevance scanner was called
  pass_log,                  \* the user rewriters invoked, in order, with one
                             \* mark where the built-in rewriters ran
  chained,                   \* whether every rewriter so far was handed the
                             \* tree the call before it returned
  installed,                 \* whether Update installed a rewritten root
  install_log,               \* the installation steps run, in order
  column_ids                 \* ids the rewriters drew from the bundle's sequence

vars ==
  <<analyzer_options, flags, registry, analyzer_output, runtime_info,
    caller_sequence, draws_wanted, fallback_sequence_number, options_for_rewrite,
    last_rewrite_result, rewrites_to_apply, iterations, idx, pc, status,
    converted, entry, sweep_apply, sweep_log, swept, sweeps_with, invoked, scanned,
    pass_log, chained, installed, install_log, column_ids>>

Range(s) == {s[i] : i \in 1..Len(s)}

\* The per-rule counts of runtime_info.rewriters_details are followed for
\* the rules of a function's domain; with NoDetails they are not followed.
NoDetails == [r \in {} |-> 0]

\* An invocation that is not counted: what CountInvocation must differ from.
CountInvocationLost(details, ast_rewrite) == details

\* runtime_info.rewriters_details(ast_rewrite).count++ (line 256).
CountInvocation(details, ast_rewrite) ==
  [r \in DOMAIN details |->
     IF r = ast_rewrite THEN details[r] + 1 ELSE details[r]]

(* ------------------------ collaborators ------------------------------- *)

\* FindRelevantRewriters: the rule ids whose patterns occur in the tree.
FindRelevantRewriters(node) == node.pats

\* RewriteRegistry::registration_order().
registration_order == registry.order

\* RewriteRegistry::Get: the rewriter registered for the rule, or nullptr.
RegistryGet(rule) == rule \in registry.rewriters

\* NodeFromAnalyzerOutput: the statement if there is one, else the expression.
NodeFromAnalyzerOutput(output) == output.root

\* A fallback sequence that is drawn from once and not looped past the
\* maximum: what AdvanceFallback must differ from.
AdvanceFallbackOnce(next, max_column_id) == next + 1

\* SequenceNumber::GetNext draws the counter's value and advances it by one.
\* The position of a sequence after the advance loop of
\* AnalyzerOptionsForRewrite: draw until the drawn value is not below
\* max_column_id.
RECURSIVE AdvanceFallback(_, _)
AdvanceFallback(next, max_column_id) ==
  IF next < max_column_id
    THEN AdvanceFallback(next + 1, max_column_id)
    ELSE next + 1

\* AnalyzerOptionsForRewrite: the bundle (the overridden settings, and which
\* sequence it draws column ids from).
AnalyzerOptionsForRewrite(options) ==
  [name_resolution_mode |-> "NAME_RESOLUTION_STRICT",
   parameter_mode |-> "PARAMETER_NAMED",
   id_string_pool |-> "analyzer_output",
   column_id_sequence_number |->
     IF options.column_id_sequence_number = "null"
       THEN "fallback" ELSE "caller"]

NoOptions ==
  [name_resolution_mode |-> "", parameter_mode |-> "",
   id_string_pool |-> "null", column_id_sequence_number |-> "null"]

(* ----------------------------- rewriters -------------------------------- *)

\* What a call of Rewriter::Rewrite returns: a new root (possibly nullptr) or
\* an error; "crash" stands for a call that does not return.
RewriteOk(node) == [kind |-> "ok", node |-> node, status |-> OkStatus]
RewriteError(s) == [kind |-> "error", node |-> NullNode, status |-> s]
RewriteCrash == [kind |-> "crash", node |-> NullNode, status |-> NoStatus]

\* A rewriter known by its interface only (a user rewriter, or a built-in
\* other than NULLIFERROR): any tree of the input's kind, the input itself,
\* nullptr, or an error.
AnyRewrite(input) ==
  {RewriteOk(ResolvedNode(k, p, TRUE)) :
     k \in (IF input.kind = "null" THEN NodeKinds ELSE {input.kind}),
     p \in SUBSET ResolvedASTRewrite}
  \cup {RewriteOk(input), RewriteOk(NullNode),
        RewriteError(ErrorStatus("INVALID_ARGUMENT", "rewriter"))}

\* NullIfErrorFunctionRewriter::Rewrite. VisitAll visits every function call:
\* a call that is not NULLIFERROR is returned as it is; a NULLIFERROR call with
\* hints is an unimplemented error; one without exactly one argument fails a
\* RET_CHECK; every other NULLIFERROR call becomes an IFERROR call, so that no
\* NULLIFERROR pattern is left.
NullIfErrorRewrite(input) ==
  IF input.kind = "null"
    THEN {RewriteCrash}
    ELSE IF REWRITE_NULLIFERROR_FUNCTION \notin input.pats
      THEN {RewriteOk(input)}
      ELSE {RewriteOk(ResolvedNode(input.kind,
                        input.pats \ {REWRITE_NULLIFERROR_FUNCTION}, TRUE)),
            RewriteError(ErrorStatus("UNIMPLEMENTED", "rewriter")),
            RewriteError(ErrorStatus("INTERNAL", "rewriter"))}

(* ---------------- the NULLIFERROR rewriter on expressions --------------- *)

\* Where the rewriter is followed into the tree, a node is a record: what
\* node it is, its type, and for a function call the function, the length of
\* the hint list and the arguments; every other node keeps its children in
\* argument_list too.
FN_NULLIFERROR == "FN_NULLIFERROR"
FN_IFERROR == "FN_IFERROR"
FN_CONCAT == "FN_CONCAT"

Types == {"INT64", "STRING"}

ResolvedColumnRef(type) ==
  [node_kind |-> "ResolvedColumnRef", type |-> type, function |-> "",
   hint_list_size |-> 0, argument_list |-> <<>>, is_null |-> FALSE,
   has_explicit_type |-> FALSE]

\* ResolvedLiteralBuilder().set_type(t).set_value(Value::Null(t))
\*   .set_has_explicit_type(true).Build()
NullLiteral(type) ==
  [node_kind |-> "ResolvedLiteral", type |-> type, function |-> "",
   hint_list_size |-> 0, argument_list |-> <<>>, is_null |-> TRUE,
   has_explicit_type |-> TRUE]

ResolvedFunctionCall(function, type, hint_list_size, argument_list) ==
  [node_kind |-> "ResolvedFunctionCall", type |-> type,
   function |-> function, hint_list_size |-> hint_list_size,
   argument_list |-> argument_list, is_null |-> FALSE,
   has_explicit_type |-> FALSE]

\* A statement over one expression.
ResolvedQueryStmt(expr) ==
  [node_kind |-> "ResolvedQueryStmt", type |-> "", function |-> "",
   hint_list_size |-> 0, argument_list |-> <<expr>>, is_null |-> FALSE,
   has_explicit_type |-> FALSE]

\* FunctionCallBuilder::IfError: the call IFERROR(try_expr, else_expr), of
\* the type of try_expr.
IfError(try_expr, else_expr) ==
  RewriteOk(ResolvedFunctionCall(FN_IFERROR, try_expr.type, 0,
                                 <<try_expr, else_expr>>))

\* Lines 80-97: RET_CHECK_EQ(argument_list_size(), 1), then the argument is
\* taken out of the call and IFERROR built around it and a NULL literal of
\* its type.
RewriteNullIfError(node) ==
  IF Len(node.argument_list) # 1
    THEN RewriteError(ErrorStatus("INTERNAL", "rewriter"))
    ELSE LET try_expr == node.argument_list[1]
         IN IfError(try_expr, NullLiteral(try_expr.type))

\* A visitor that returns every call as it is: what
\* PostVisitResolvedFunctionCall must differ from.
PostVisitUnchanged(node) == RewriteOk(node)

\* A visitor that does not look at the hints: what
\* PostVisitResolvedFunctionCall must differ from.
PostVisitHintsIgnored(node) ==
  IF node.function # FN_NULLIFERROR
    THEN RewriteOk(node) ELSE RewriteNullIfError(node)

\* Lines 67-78.
PostVisitResolvedFunctionCall(node) ==
  IF node.function # FN_NULLIFERROR THEN RewriteOk(node)
  ELSE IF node.hint_list_size > 0
    THEN RewriteError(ErrorStatus("UNIMPLEMENTED", "rewriter"))
  ELSE RewriteNullIfError(node)

\* ResolvedASTRewriteVisitor::VisitAll: the children are visited first, in
\* order, and the first error ends the visit; then the node, with the
\* children the visits returned, is given to its PostVisit method, which for
\* every node but a function call returns it as it is.
RECURSIVE VisitAll(_)
VisitAll(node) ==
  LET visited == [i \in 1..Len(node.argument_list) |->
                    VisitAll(node.argument_list[i])]
      failed == {i \in 1..Len(visited) : visited[i].kind = "error"}
      first == CHOOSE i \in failed : \A j \in failed : i <= j
      rebuilt == [node EXCEPT !.argument_list =
                    [i \in 1..Len(visited) |-> visited[i].node]]
  IN IF failed # {} THEN visited[first]
     ELSE IF node.node_kind = "ResolvedFunctionCall"
       THEN PostVisitResolvedFunctionCall(rebuilt)
     ELSE RewriteOk(rebuilt)

\* Lines 105-113: NullIfErrorFunctionRewriter::Rewrite.
NullIfErrorFunctionRewriter(options, input) ==
  IF options.id_string_pool = "null"
       \/ options.column_id_sequence_number = "null"
    THEN RewriteError(ErrorStatus("INTERNAL", "rewriter"))
    ELSE VisitAll(input)

\* The rewriter the registry holds for a rule.
BuiltinRewrite(rule, input) ==
  IF rule = REWRITE_NULLIFERROR_FUNCTION
    THEN NullIfErrorRewrite(input)
    ELSE AnyRewrite(input)

(* ------------------------------- Init ---------------------------------- *)

UserRewriterLists == {[i \in 1..n |-> i] : n \in 0..MaxUserRewriters}

Registries ==
  {[order |-> <<REWRITE_ANONYMIZATION, REWRITE_NULLIFERROR_FUNCTION,
                REWRITE_OTHER>>,
    rewriters |-> ResolvedASTRewrite],
   [order |-> <<REWRITE_OTHER, REWRITE_NULLIFERROR_FUNCTION,
                REWRITE_ANONYMIZATION>>,
    rewriters |-> ResolvedASTRewrite],
   [order |-> <<REWRITE_NULLIFERROR_FUNCTION, REWRITE_ANONYMIZATION>>,
    rewriters |-> {REWRITE_NULLIFERROR_FUNCTION, REWRITE_ANONYMIZATION}]}

\* A root the analyzer output can hold at entry.
EntryRoot(kind, pats) == ResolvedNode(kind, pats, FALSE)

\* The relevance sets the resolver can have attached to a root: none, the
\* scanner's, or one that disagrees with the scanner.
ResolverSets(root) ==
  {{}, FindRelevantRewriters(root),
   ResolvedASTRewrite \ FindRelevantRewriters(root)}

DefaultFlags == [disable_rewriter_checker |-> FALSE, debug_mode |-> FALSE]

DefaultRegistry ==
  [order |-> <<REWRITE_ANONYMIZATION, REWRITE_NULLIFERROR_FUNCTION,
               REWRITE_OTHER>>,
   rewriters |-> ResolvedASTRewrite]

UserRewriterOptions(enabled, sequence) ==
  [enabled_rewrites : enabled,
   leading_rewriters : UserRewriterLists,
   trailing_rewriters : UserRewriterLists,
   column_id_sequence_number : sequence]

\* The calls the model starts from, in four families of inputs. In each the
\* user rewriter lists and the patterns of the entry root vary, and
\*  - Convergence: the enabled set and the registry vary;
\*  - Relevance: the enabled set, the two flags and the resolver's set vary;
\*  - Root: the root is absent or an expression;
\*  - Column: max_column_id and the caller's sequence vary, and the rewriters
\*    draw column ids.
ConvergenceInputs ==
  {[options |-> o, flags |-> DefaultFlags, registry |-> r,
    root |-> EntryRoot("stmt", p), relevant |-> p,
    max_column_id |-> 0, caller_sequence |-> 0, draws |-> 0] :
     o \in UserRewriterOptions(SUBSET ResolvedASTRewrite, {"null"}),
     r \in Registries,
     p \in SUBSET ResolvedASTRewrite}

RelevanceInputs ==
  {[options |-> o, flags |-> f, registry |-> DefaultRegistry,
    root |-> EntryRoot("stmt", p), relevant |-> rr,
    max_column_id |-> 0, caller_sequence |-> 0, draws |-> 0] :
     o \in UserRewriterOptions(
            SUBSET {REWRITE_ANONYMIZATION, REWRITE_NULLIFERROR_FUNCTION},
            {"null"}),
     f \in [disable_rewriter_checker : BOOLEAN, debug_mode : BOOLEAN],
     p \in SUBSET ResolvedASTRewrite,
     rr \in SUBSET ResolvedASTRewrite}

RootInputs ==
  {[options |-> o, flags |-> DefaultFlags, registry |-> DefaultRegistry,
    root |-> root, relevant |-> FindRelevantRewriters(root),
    max_column_id |-> 0, caller_sequence |-> 0, draws |-> 0] :
     o \in UserRewriterOptions({{}, {REWRITE_OTHER}}, {"null"}),
     root \in {NullNode} \cup
              {EntryRoot("expr", p) : p \in SUBSET ResolvedASTRewrite}}

ColumnInputs ==
  {[options |-> o, flags |-> DefaultFlags, registry |-> DefaultRegistry,
    root |-> EntryRoot("stmt", p), relevant |-> p,
    max_column_id |-> m, caller_sequence |-> c, draws |-> d] :
     o \in UserRewriterOptions({{REWRITE_NULLIFERROR_FUNCTION}},
                               {"null", "caller"}),
     p \in SUBSET ResolvedASTRewrite,
     m \in 0..MaxColumnId,
     c \in 0..(MaxColumnId + 1),
     d \in 1..MaxDraws}

Inputs ==
  {in \in ConvergenceInputs \cup RelevanceInputs \cup RootInputs
            \cup ColumnInputs :
     /\ in.relevant \in ResolverSets(in.root)
     /\ in.options.column_id_sequence_number = "null" => in.caller_sequence = 0}

Init ==
  \E in \in Inputs :
    /\ analyzer_options = in.options
    /\ flags = in.flags
    /\ registry = in.registry
    /\ analyzer_output =
         [root |-> in.root, max_column_id |-> in.max_column_id,
          output_properties |-> [relevant_rewrites |-> in.relevant]]
    /\ runtime_info = [rewriters_timed_value |-> 0,
                       rewriters_details |-> NoDetails]
    /\ caller_sequence = in.caller_sequence
    /\ draws_wanted = in.draws
    /\ fallback_sequence_number = 0
    /\ options_for_rewrite = NoOptions
    /\ last_rewrite_result = NullNode
    /\ rewrites_to_apply = {}
    /\ iterations = 0
    /\ idx = 0
    /\ pc = "entry"
    /\ status = NoStatus
    /\ converted = 0
    /\ entry = [root_kind |-> in.root.kind,
                root_pats |-> in.root.pats,
                max_column_id |-> in.max_column_id,
                output_properties |-> [relevant_rewrites |-> in.relevant],
                caller_sequence |-> in.caller_sequence]
    /\ sweep_apply = {}
    /\ sweep_log = <<>>
    /\ swept = FALSE
    /\ sweeps_with = NoDetails
    /\ invoked = FALSE
    /\ scanned = FALSE
    /\ pass_log = <<>>
    /\ chained = TRUE
    /\ installed = FALSE
    /\ install_log = <<>>
    /\ column_ids = {}

(* ------------------- the driver's own decisions ------------------------ *)

\* A scanner that runs whatever the flags say: what CheckerRuns must differ
\* from.
CheckerRunsAlways == TRUE

\* Whether the relevance scanner runs on the entry root (line 161).
CheckerRuns == flags.debug_mode \/ ~flags.disable_rewriter_checker

\* A cross-check that also compares an empty resolver set: what
\* CrossCheckFails must differ from.
CrossCheckFailsOnEmpty(resolver, checker) ==
  flags.debug_mode /\ resolver # checker

\* The debug cross-check of the resolver's set against the scanner's.
CrossCheckFails(resolver, checker) ==
  flags.debug_mode /\ resolver # {} /\ resolver # checker

\* A selection that always takes the resolver's set: what DetectedRewrites
\* must differ from.
DetectedRewritesByResolver(resolver, checker) == resolver

\* detected_rewrites: the resolver's set under the disable-checker flag, else
\* the scanner's.
DetectedRewrites(resolver, checker) ==
  IF flags.disable_rewriter_checker THEN resolver ELSE checker

\* An apply set that ignores the detected set: what RewritesToApply must
\* differ from.
RewritesToApplyEnabled(detected) == analyzer_options.enabled_rewrites

\* rewrites_to_apply at entry: enabled_rewrites intersected with the detected.
RewritesToApply(detected) == analyzer_options.enabled_rewrites \cap detected

\* The early exits: nothing in the set and no user rewriters.
NoRewritersRequired(rewrites) ==
  /\ rewrites = {}
  /\ analyzer_options.leading_rewriters = <<>>
  /\ analyzer_options.trailing_rewriters = <<>>

\* A limit test that is off by one: what IterationLimitExceeded must differ
\* from.
IterationLimitExceededEarly(n) == n >= kMaxIterations

\* ++iterations > kMaxIterations, on the incremented value.
IterationLimitExceeded(n) == n > kMaxIterations

\* A sweep that takes the last position first: what NextRewrite must differ
\* from.
NextRewriteLast(i) ==
  LET later == {p \in 1..Len(registration_order) :
                  /\ registration_order[p] \in rewrites_to_apply
                  /\ \A k \in 1..Len(sweep_log) :
                       sweep_log[k] # registration_order[p]}
  IN IF later = {} THEN 0 ELSE CHOOSE p \in later : \A q \in later : p >= q

\* The first position from i on of registration_order whose rule is in
\* rewrites_to_apply (the others are skipped by `continue`); 0 if none.
NextRewrite(i) ==
  LET later == {p \in i..Len(registration_order) :
                  registration_order[p] \in rewrites_to_apply}
  IN IF later = {} THEN 0 ELSE CHOOSE p \in later : \A q \in later : p <= q

\* A rescan that keeps the anonymization rule: what RescanRewrites must
\* differ from.
RescanRewritesWithAnonymization(checker) ==
  analyzer_options.enabled_rewrites \cap checker

\* A rescan that only clears the set: what RescanRewrites must differ from.
RescanRewritesCleared(checker) == {}

\* rewrites_to_apply after a sweep: cleared, refilled from the scanner's
\* result on the current tree, REWRITE_ANONYMIZATION erased.
RescanRewrites(checker) ==
  (analyzer_options.enabled_rewrites \cap checker) \ {REWRITE_ANONYMIZATION}

\* A driver that goes to the loop without a leading pass: what AfterLeading
\* must differ from.
AfterLeadingSkipped(i, apply) ==
  IF apply # {} THEN "loop_head" ELSE "accumulate"

\* Where the driver is once the leading pass stands at position i.
AfterLeading(i, apply) ==
  IF i <= Len(analyzer_options.leading_rewriters) THEN "leading"
  ELSE IF apply # {} THEN "loop_head" ELSE "accumulate"

\* A driver that goes from the trailing pass to the validator, before Update:
\* what AfterTrailing must differ from.
AfterTrailingValidateFirst(i) ==
  IF i <= Len(analyzer_options.trailing_rewriters) THEN "trailing"
  ELSE "validate"

\* Where the driver is once the trailing pass stands at position i.
AfterTrailing(i) ==
  IF i <= Len(analyzer_options.trailing_rewriters) THEN "trailing"
  ELSE "install"

\* A RET_CHECK failure.
RetCheckError(origin) == ErrorStatus("INTERNAL", origin)

(* ------------------------------ actions -------------------------------- *)

\* A return that skips the error-location conversion: what ReturnFromDriver
\* must differ from.
ReturnFromDriverUnconverted(s) ==
  /\ status' = s
  /\ converted' = converted
  /\ pc' = "done"

\* A return that records the status and leaves the driver where it was: what
\* ReturnFromDriver must differ from.
ReturnFromDriverContinued(s) ==
  /\ status' = s
  /\ converted' = converted + 1
  /\ pc' = pc

\* `return <status>` in InternalRewriteResolvedAstNoConvertErrorLocation: the
\* status is the argument of ConvertInternalErrorLocationAndAdjustErrorString
\* (lines 361-365), whose result InternalRewriteResolvedAst returns.
ReturnFromDriver(s) ==
  /\ status' = s
  /\ converted' = converted + 1
  /\ pc' = "done"

\* A test for work that looks at the enabled rules only: what
\* NothingToRewrite must differ from.
NothingToRewriteNoRules(options, output) == options.enabled_rewrites = {}

\* Lines 355-357: no rule is enabled, or the output holds neither a statement
\* nor an expression.
NothingToRewrite(options, output) ==
  \/ options.enabled_rewrites = {}
  \/ NodeFromAnalyzerOutput(output) = NullNode

\* InternalRewriteResolvedAst up to the call of the driver: the pre-rewrite
\* callback (absent, succeeding or failing), then the check for work.
Entry ==
  /\ pc = "entry"
  /\ \E callback \in {"null", "ok", "error"} :
       IF callback = "error"
         THEN /\ status' = ErrorStatus("INVALID_ARGUMENT", "pre_rewrite_callback")
              /\ pc' = "done"
         ELSE IF NothingToRewrite(analyzer_options, analyzer_output)
           THEN /\ status' = OkStatus
                /\ pc' = "done"
           ELSE /\ status' = status
                /\ pc' = "driver"
  /\ UNCHANGED <<analyzer_options, flags, registry, analyzer_output,
                 runtime_info, caller_sequence, draws_wanted,
                 fallback_sequence_number,
                 options_for_rewrite, last_rewrite_result, rewrites_to_apply,
                 iterations, idx, converted, entry, sweep_apply, sweep_log,
                 swept, sweeps_with, invoked, scanned,
                 pass_log, chained, installed, install_log, column_ids>>

\* Lines 139-201: relevance synchronization and the two early exits.
DetectRewrites ==
  /\ pc = "driver"
  /\ \E scan_ok \in BOOLEAN :
       LET resolver == analyzer_output.output_properties.relevant_rewrites
           rewrite_input == NodeFromAnalyzerOutput(analyzer_output)
           checker == IF CheckerRuns
                        THEN FindRelevantRewriters(rewrite_input) ELSE {}
           detected == DetectedRewrites(resolver, checker)
           apply == RewritesToApply(detected)
       IN
       IF rewrite_input = NullNode
         THEN /\ ReturnFromDriver(RetCheckError("null_input"))
              /\ UNCHANGED <<runtime_info, rewrites_to_apply, idx>>
       ELSE IF CheckerRuns /\ ~scan_ok
         THEN /\ ReturnFromDriver(ErrorStatus("INVALID_ARGUMENT", "scanner"))
              /\ UNCHANGED <<runtime_info, rewrites_to_apply, idx>>
       ELSE IF CheckerRuns /\ CrossCheckFails(resolver, checker)
         THEN /\ ReturnFromDriver(RetCheckError("cross_check"))
              /\ UNCHANGED <<runtime_info, rewrites_to_apply, idx>>
       ELSE IF NoRewritersRequired(detected) \/ NoRewritersRequired(apply)
         THEN /\ runtime_info' =
                   [runtime_info EXCEPT !.rewriters_timed_value = @ + 1]
              /\ ReturnFromDriver(OkStatus)
              /\ UNCHANGED <<rewrites_to_apply, idx>>
       ELSE /\ rewrites_to_apply' = apply
            /\ idx' = 1
            /\ pc' = AfterLeading(1, apply)
            /\ UNCHANGED <<runtime_info, status, converted>>
  /\ scanned' = (CheckerRuns /\ NodeFromAnalyzerOutput(analyzer_output) # NullNode)
  /\ UNCHANGED <<analyzer_options, flags, registry, analyzer_output,
                 caller_sequence, draws_wanted, fallback_sequence_number,
                 options_for_rewrite, last_rewrite_result, iterations,
                 entry, sweep_apply, sweep_log, swept, sweeps_with, invoked,
                 pass_log, chained, installed,
                 install_log, column_ids>>

\* pass_log after an invocation in a pass: a user rewriter is entered by its
\* place in the list; the built-in rewriters share one entry, made by the
\* first of them that runs after a user rewriter (or first of all).
LogInvocation(pass, rewriter) ==
  IF /\ pass = "builtin"
     /\ pass_log # <<>>
     /\ pass_log[Len(pass_log)].pass = "builtin"
    THEN pass_log
    ELSE Append(pass_log, [pass |-> pass, rewriter |-> rewriter])

\* The tree the last invocation returned, or the output's root before the
\* first invocation.
HandedDown ==
  IF invoked THEN last_rewrite_result
  ELSE NodeFromAnalyzerOutput(analyzer_output)

\* The tree the next rewriter is handed: the current tree slot, filled from
\* release_output_node() when the bundle is built (first lazy use).
RewriterInput ==
  IF options_for_rewrite = NoOptions
    THEN analyzer_output.root ELSE last_rewrite_result

\* A fallback sequence left where it was constructed: what FallbackOnceBuilt
\* must differ from.
FallbackOnceBuiltUnadvanced == fallback_sequence_number

\* A fallback sequence that is advanced again at every call, as if the
\* bundle were built anew each time: what FallbackOnceBuilt must differ from.
FallbackAdvancedEveryCall ==
  IF analyzer_options.column_id_sequence_number = "null"
    THEN AdvanceFallback(fallback_sequence_number,
                         analyzer_output.max_column_id)
    ELSE fallback_sequence_number

\* fallback_sequence_number once the bundle exists.
FallbackOnceBuilt ==
  IF /\ options_for_rewrite = NoOptions
     /\ analyzer_options.column_id_sequence_number = "null"
    THEN AdvanceFallback(fallback_sequence_number,
                         analyzer_output.max_column_id)
    ELSE fallback_sequence_number

\* The lazy initialisation `if (options_for_rewrite == nullptr) {...}`.
EnsureOptions ==
  /\ options_for_rewrite' =
       IF options_for_rewrite = NoOptions
         THEN AnalyzerOptionsForRewrite(analyzer_options)
         ELSE options_for_rewrite

\* One call rewriter->Rewrite(*options_for_rewrite, std::move(
\* last_rewrite_result), ..., mutable_output_properties()) after the lazy
\* initialisation; the rewriter may draw column ids from the bundle's
\* sequence; ok_pc and ok_idx say where the
\* driver continues after a result it accepts, check_null whether the driver
\* RET_CHECKs the result.
CallRewriter(outcomes, ok_pc, ok_idx, check_null) ==
  \E out \in outcomes, draw \in 0..1 :
    /\ draw = 1 => Cardinality(column_ids) < draws_wanted
    /\ EnsureOptions
    /\ LET seq == options_for_rewrite'.column_id_sequence_number
           next == IF seq = "fallback"
                     THEN FallbackOnceBuilt ELSE caller_sequence
       IN /\ fallback_sequence_number' =
               IF seq = "fallback" THEN next + draw ELSE FallbackOnceBuilt
          /\ caller_sequence' =
               IF seq = "caller" THEN next + draw ELSE caller_sequence
          /\ column_ids' =
               IF draw = 1 THEN column_ids \cup {next} ELSE column_ids
    /\ analyzer_output' =
         [analyzer_output EXCEPT
            !.root = IF options_for_rewrite = NoOptions THEN NullNode ELSE @]
    /\ invoked' = TRUE
    /\ UNCHANGED <<draws_wanted, swept, sweeps_with, scanned>>
    /\ IF out.kind = "crash"
         THEN /\ pc' = "crashed"
              /\ last_rewrite_result' = NullNode
              /\ UNCHANGED <<status, converted, idx>>
       ELSE IF out.kind = "error"
         THEN /\ ReturnFromDriver(out.status)
              /\ last_rewrite_result' = NullNode
              /\ UNCHANGED idx
       ELSE IF check_null /\ out.node = NullNode
         THEN /\ ReturnFromDriver(RetCheckError("null_result"))
              /\ last_rewrite_result' = NullNode
              /\ UNCHANGED idx
       ELSE /\ last_rewrite_result' = out.node
            /\ pc' = ok_pc
            /\ idx' = ok_idx
            /\ UNCHANGED <<status, converted>>

\* Lines 204-216: one leading rewriter.
LeadingRewriter ==
  /\ pc = "leading"
  /\ CallRewriter(AnyRewrite(RewriterInput),
                  AfterLeading(idx + 1, rewrites_to_apply), idx + 1, FALSE)
  /\ pass_log' = LogInvocation("leading", analyzer_options.leading_rewriters[idx])
  /\ chained' = (chained /\ RewriterInput = HandedDown)
  /\ UNCHANGED <<analyzer_options, flags, registry, runtime_info,
                 rewrites_to_apply, iterations, entry, sweep_apply,
                 sweep_log, installed, install_log>>

\* Lines 227-234: the start of a sweep.
IterationStart ==
  /\ pc = "loop_head"
  /\ iterations' = iterations + 1
  /\ IF IterationLimitExceeded(iterations + 1)
       THEN /\ ReturnFromDriver(ResourceExhaustedError)
            /\ UNCHANGED <<idx, sweep_apply, sweep_log, swept, sweeps_with>>
       ELSE /\ pc' = "sweep"
            /\ idx' = 1
            /\ sweep_apply' = rewrites_to_apply
            /\ sweep_log' = <<>>
            /\ swept' = TRUE
            /\ sweeps_with' =
                 [r \in DOMAIN sweeps_with |->
                    IF r \in rewrites_to_apply
                      THEN sweeps_with[r] + 1 ELSE sweeps_with[r]]
            /\ UNCHANGED <<status, converted>>
  /\ UNCHANGED <<analyzer_options, flags, registry, analyzer_output,
                 runtime_info, caller_sequence, draws_wanted,
                 fallback_sequence_number,
                 options_for_rewrite, last_rewrite_result, rewrites_to_apply,
                 entry, invoked, scanned,
                 pass_log, chained, installed, install_log,
                 column_ids>>

\* Lines 235-277: the next rule of registration_order that is in
\* rewrites_to_apply: lazy initialisation, registry lookup, invocation.
BuiltinRewriter ==
  /\ pc = "sweep"
  /\ NextRewrite(idx) # 0
  /\ LET p == NextRewrite(idx)
         ast_rewrite == registration_order[p]
     IN IF ~RegistryGet(ast_rewrite)
          THEN /\ EnsureOptions
               /\ fallback_sequence_number' = FallbackOnceBuilt
               /\ analyzer_output' =
                    [analyzer_output EXCEPT
                       !.root = IF options_for_rewrite = NoOptions
                                  THEN NullNode ELSE @]
               /\ last_rewrite_result' = RewriterInput
               /\ ReturnFromDriver(MissingRewriterError(ast_rewrite))
               /\ UNCHANGED <<runtime_info, caller_sequence, draws_wanted,
                              column_ids,
                              swept, sweeps_with, invoked, scanned,
                 pass_log, chained, idx, sweep_log>>
          ELSE /\ sweep_log' = Append(sweep_log, ast_rewrite)
               /\ pass_log' = LogInvocation("builtin", 0)
               /\ chained' = (chained /\ RewriterInput = HandedDown)
               /\ runtime_info' =
                    [runtime_info EXCEPT !.rewriters_details =
                       CountInvocation(@, ast_rewrite)]
               /\ CallRewriter(BuiltinRewrite(ast_rewrite, RewriterInput),
                               "sweep", p + 1, TRUE)
  /\ UNCHANGED <<analyzer_options, flags, registry,
                 rewrites_to_apply, iterations, entry, sweep_apply,
                 installed, install_log>>

\* Lines 279-290: after the sweep, the scanner runs on the current tree and
\* decides whether another sweep follows. The scanner dereferences the tree:
\* on nullptr the call does not return. The sweep's log ends with the sweep,
\* and `iterations` is not read again once the loop is left.
Rescan ==
  /\ pc = "sweep"
  /\ NextRewrite(idx) = 0
  /\ \E scan_ok \in BOOLEAN :
       IF last_rewrite_result = NullNode
         THEN /\ pc' = "crashed"
              /\ UNCHANGED <<status, converted, rewrites_to_apply, iterations,
                             sweep_apply, sweep_log>>
       ELSE IF ~scan_ok
         THEN /\ ReturnFromDriver(ErrorStatus("INVALID_ARGUMENT", "scanner"))
              /\ rewrites_to_apply' = {}
              /\ UNCHANGED <<iterations, sweep_apply, sweep_log>>
       ELSE /\ rewrites_to_apply' =
                 RescanRewrites(FindRelevantRewriters(last_rewrite_result))
            /\ pc' = IF rewrites_to_apply' # {}
                       THEN "loop_head" ELSE "accumulate"
            /\ iterations' = IF rewrites_to_apply' # {} THEN iterations ELSE 0
            /\ sweep_apply' = {}
            /\ sweep_log' = <<>>
            /\ UNCHANGED <<status, converted>>
  /\ scanned' = TRUE
  /\ UNCHANGED <<analyzer_options, flags, registry, analyzer_output,
                 runtime_info, caller_sequence, draws_wanted,
                 fallback_sequence_number, options_for_rewrite,
                 last_rewrite_result, idx, entry, swept, sweeps_with, invoked,
                 pass_log, chained,
                 installed, install_log, column_ids>>

\* Line 293: the overall timer is accumulated once the loop is over.
AccumulateTimer ==
  /\ pc = "accumulate"
  /\ runtime_info' = [runtime_info EXCEPT !.rewriters_timed_value = @ + 1]
  /\ idx' = 1
  /\ pc' = AfterTrailing(1)
  /\ UNCHANGED <<analyzer_options, flags, registry, analyzer_output,
                 caller_sequence, draws_wanted, fallback_sequence_number,
                 options_for_rewrite, last_rewrite_result, rewrites_to_apply,
                 iterations, status, converted, entry, sweep_apply, sweep_log,
                 swept, sweeps_with, invoked, scanned,
                 pass_log, chained, installed, install_log, column_ids>>

\* Lines 296-308: one trailing rewriter.
TrailingRewriter ==
  /\ pc = "trailing"
  /\ CallRewriter(AnyRewrite(RewriterInput),
                  AfterTrailing(idx + 1), idx + 1, FALSE)
  /\ pass_log' = LogInvocation("trailing", analyzer_options.trailing_rewriters[idx])
  /\ chained' = (chained /\ RewriterInput = HandedDown)
  /\ UNCHANGED <<analyzer_options, flags, registry, runtime_info,
                 rewrites_to_apply, iterations, entry, sweep_apply,
                 sweep_log, installed, install_log>>

\* The sequence the bundle draws from, as its next value.
BundleSequence ==
  IF options_for_rewrite.column_id_sequence_number = "fallback"
    THEN fallback_sequence_number ELSE caller_sequence

\* AnalyzerOutputMutator::Update: the root is installed as the statement or
\* the expression and max_column_id becomes the last value of the sequence.
UpdateOutput(output, node, next) ==
  [output EXCEPT !.root = node, !.max_column_id = next - 1]

\* Lines 310-313: if a bundle was built the current tree is installed. A
\* leading or trailing rewriter may have left nullptr as the current tree
\* (lines 204-216 and 296-308 check no result): what Update does with it is
\* not defined, so it either does not return or returns OK with no root.
Install ==
  /\ pc = "install"
  /\ \E update_ok \in BOOLEAN :
       IF options_for_rewrite = NoOptions
         THEN /\ pc' = "final_check"
              /\ UNCHANGED <<analyzer_output, last_rewrite_result, status, converted,
                             installed, install_log>>
       ELSE IF last_rewrite_result = NullNode /\ ~update_ok
         THEN /\ pc' = "crashed"
              /\ UNCHANGED <<analyzer_output, last_rewrite_result, status, converted,
                             installed, install_log>>
       ELSE IF last_rewrite_result = NullNode
         THEN /\ analyzer_output' =
                   UpdateOutput(analyzer_output, NullNode, BundleSequence)
              /\ install_log' = Append(install_log, "update")
              /\ pc' = "validate"
              /\ UNCHANGED <<last_rewrite_result, status, converted,
                             installed>>
       ELSE IF ~update_ok
         THEN /\ ReturnFromDriver(ErrorStatus("INTERNAL", "update"))
              /\ last_rewrite_result' = NullNode
              /\ UNCHANGED <<analyzer_output, installed, install_log>>
       ELSE /\ analyzer_output' =
                 UpdateOutput(analyzer_output, last_rewrite_result,
                              BundleSequence)
            /\ last_rewrite_result' = NullNode
            /\ installed' = TRUE
            /\ install_log' = Append(install_log, "update")
            /\ pc' = "validate"
            /\ UNCHANGED <<status, converted>>
  /\ UNCHANGED <<analyzer_options, flags, registry, runtime_info,
                 caller_sequence, draws_wanted, fallback_sequence_number,
                 options_for_rewrite, rewrites_to_apply, iterations, idx,
                 entry, sweep_apply, sweep_log, swept, sweeps_with, invoked, scanned,
                 pass_log, chained,
                 column_ids>>

\* Lines 315-331: the validator, if the validate_resolved_ast option is on.
Validate ==
  /\ pc = "validate"
  /\ \E validate_resolved_ast \in BOOLEAN, valid \in BOOLEAN :
       IF ~validate_resolved_ast
         THEN /\ pc' = "mark"
              /\ UNCHANGED <<status, converted, install_log>>
       ELSE IF analyzer_output.root = NullNode
         THEN /\ ReturnFromDriver(RetCheckError("null_expr"))
              /\ UNCHANGED install_log
       ELSE /\ install_log' = Append(install_log, "validate")
            /\ IF valid
                 THEN /\ pc' = "mark"
                      /\ UNCHANGED <<status, converted>>
                 ELSE ReturnFromDriver(ErrorStatus("INTERNAL", "validator"))
  /\ UNCHANGED <<analyzer_options, flags, registry, analyzer_output,
                 runtime_info, caller_sequence, draws_wanted,
                 fallback_sequence_number,
                 options_for_rewrite, last_rewrite_result, rewrites_to_apply,
                 iterations, idx, entry, sweep_apply, sweep_log,
                 swept, sweeps_with, invoked, scanned,
                 pass_log, chained, installed, column_ids>>

\* Lines 332-338: MarkFieldsAccessed under LEGACY_FIELDS_ACCESSED_MODE.
MarkFieldsAccessed ==
  /\ pc = "mark"
  /\ \E fields_accessed_mode \in {"LEGACY_FIELDS_ACCESSED_MODE", "CLEAR_FIELDS"} :
       install_log' =
         IF /\ fields_accessed_mode = "LEGACY_FIELDS_ACCESSED_MODE"
            /\ NodeFromAnalyzerOutput(analyzer_output) # NullNode
           THEN Append(install_log, "mark") ELSE install_log
  /\ pc' = "final_check"
  /\ UNCHANGED <<analyzer_options, flags, registry, analyzer_output,
                 runtime_info, caller_sequence, draws_wanted,
                 fallback_sequence_number,
                 options_for_rewrite, last_rewrite_result, rewrites_to_apply,
                 iterations, idx, status, converted, entry, sweep_apply,
                 sweep_log, swept, sweeps_with, invoked, scanned,
                 pass_log, chained, installed, column_ids>>

\* A return without the closing RET_CHECK: what FinalStatus must differ from.
FinalStatusUnchecked(output) == OkStatus

\* Lines 340-342: the closing RET_CHECK that the output holds a statement or
\* an expression, and the status the driver returns after it.
FinalStatus(output) ==
  IF NodeFromAnalyzerOutput(output) # NullNode
    THEN OkStatus ELSE RetCheckError("no_root")

\* Lines 340-342: the closing RET_CHECK and the successful return.
FinalCheck ==
  /\ pc = "final_check"
  /\ ReturnFromDriver(FinalStatus(analyzer_output))
  /\ UNCHANGED <<analyzer_options, flags, registry, analyzer_output,
                 runtime_info, caller_sequence, draws_wanted,
                 fallback_sequence_number,
                 options_for_rewrite, last_rewrite_result, rewrites_to_apply,
                 iterations, idx, entry, sweep_apply, sweep_log,
                 swept, sweeps_with, invoked, scanned,
                 pass_log, chained, installed, install_log, column_ids>>

Next ==
  \/ Entry
  \/ DetectRewrites
  \/ LeadingRewriter
  \/ IterationStart
  \/ BuiltinRewriter
  \/ Rescan
  \/ AccumulateTimer
  \/ TrailingRewriter
  \/ Install
  \/ Validate
  \/ MarkFieldsAccessed
  \/ FinalCheck

Spec == Init /\ [][Next]_vars

\* ---------------------------------------------------------------------------
\* AnalyzerOptionsForRewrite on its own: the bundle is built from any
\* max_column_id and any position of the fallback sequence, and one column id
\* is drawn from the bundle's sequence.

OptionsInit ==
  \E sequence \in {"null", "caller"},
     max_column_id \in 0..MaxStart, start \in 0..MaxStart :
    /\ analyzer_options =
         [enabled_rewrites |-> {REWRITE_NULLIFERROR_FUNCTION},
          leading_rewriters |-> <<>>, trailing_rewriters |-> <<>>,
          column_id_sequence_number |-> sequence]
    /\ flags = DefaultFlags
    /\ registry = DefaultRegistry
    /\ analyzer_output =
         [root |-> EntryRoot("stmt", {REWRITE_NULLIFERROR_FUNCTION}),
          max_column_id |-> max_column_id,
          output_properties |->
            [relevant_rewrites |-> {REWRITE_NULLIFERROR_FUNCTION}]]
    /\ runtime_info = [rewriters_timed_value |-> 0,
                       rewriters_details |-> NoDetails]
    /\ caller_sequence = IF sequence = "caller" THEN start ELSE 0
    /\ draws_wanted = 1
    /\ fallback_sequence_number = start
    /\ options_for_rewrite = NoOptions
    /\ last_rewrite_result = NullNode
    /\ rewrites_to_apply = {}
    /\ iterations = 0
    /\ idx = 0
    /\ pc = "options"
    /\ status = NoStatus
    /\ converted = 0
    /\ entry = [root_kind |-> "stmt",
                max_column_id |-> max_column_id,
                output_properties |->
                  [relevant_rewrites |-> {REWRITE_NULLIFERROR_FUNCTION}],
                caller_sequence |-> IF sequence = "caller" THEN start ELSE 0]
    /\ sweep_apply = {}
    /\ sweep_log = <<>>
    /\ swept = FALSE
    /\ sweeps_with = NoDetails
    /\ invoked = FALSE
    /\ scanned = FALSE
    /\ pass_log = <<>>
    /\ chained = TRUE
    /\ installed = FALSE
    /\ install_log = <<>>
    /\ column_ids = {}

\* Lines 74-131: the bundle is built; the fallback sequence is advanced if
\* the caller supplied none.
BuildOptions ==
  /\ pc = "options"
  /\ EnsureOptions
  /\ fallback_sequence_number' = FallbackOnceBuilt
  /\ pc' = "options_built"
  /\ UNCHANGED <<analyzer_options, flags, registry, analyzer_output,
                 runtime_info, caller_sequence, draws_wanted,
                 last_rewrite_result, rewrites_to_apply, iterations, idx,
                 status, converted, entry, sweep_apply, sweep_log, swept, sweeps_with,
                 invoked, scanned,
                 pass_log, chained, installed, install_log, column_ids>>

\* One column id is drawn from the sequence the bundle carries.
DrawColumnId ==
  /\ pc = "options_built"
  /\ column_ids' = column_ids \cup {BundleSequence}
  /\ IF options_for_rewrite.column_id_sequence_number = "fallback"
       THEN /\ fallback_sequence_number' = fallback_sequence_number + 1
            /\ UNCHANGED caller_sequence
       ELSE /\ caller_sequence' = caller_sequence + 1
            /\ UNCHANGED fallback_sequence_number
  /\ pc' = "options_drawn"
  /\ UNCHANGED <<analyzer_options, flags, registry, analyzer_output,
                 runtime_info, draws_wanted, options_for_rewrite,
                 last_rewrite_result, rewrites_to_apply, iterations, idx,
                 status, converted, entry, sweep_apply, sweep_log, swept, sweeps_with,
                 invoked, scanned,
                 pass_log, chained, installed, install_log>>

OptionsNext ==
  \/ BuildOptions
  \/ DrawColumnId

SpecOptions == OptionsInit /\ [][OptionsNext]_vars

(* ------- the sweep's call of the NULLIFERROR rewriter, on expressions ---- *)

Leaves == {ResolvedColumnRef(t) : t \in Types}

\* A call whose type is that of its first argument.
CallOver(function, hint_list_size, argument_list) ==
  ResolvedFunctionCall(function,
                       IF argument_list = <<>>
                         THEN "INT64" ELSE argument_list[1].type,
                       hint_list_size, argument_list)

Functions == {FN_NULLIFERROR, FN_CONCAT}

\* Calls over columns, with 0..MaxArgs arguments and 0..MaxHints hints.
Calls1 ==
  {CallOver(f, h, a) :
     f \in Functions, h \in 0..MaxHints,
     a \in UNION {[1..n -> Leaves] : n \in 0..MaxArgs}}

\* Calls over calls: one or two arguments, at least one of them a call.
Calls2 ==
  {CallOver(f, h, a) :
     f \in Functions, h \in 0..MaxHints,
     a \in {<<c>> : c \in Calls1}
           \cup (IF MaxArgs < 2 THEN {}
                 ELSE {<<c, d>> : c \in Calls1, d \in Calls1 \cup Leaves}
                      \cup {<<l, c>> : l \in Leaves, c \in Calls1})}

Statements == {ResolvedQueryStmt(e) : e \in Leaves \cup Calls1 \cup Calls2}

\* The driver at the start of its first sweep with the NULLIFERROR rule to
\* apply and no user rewriters: no rewriter has run, the bundle is not built
\* and the output still owns the root.
NullIfErrorInit ==
  \E root \in Statements, sequence \in {"null", "caller"} :
    /\ analyzer_options =
         [enabled_rewrites |-> {REWRITE_NULLIFERROR_FUNCTION},
          leading_rewriters |-> <<>>, trailing_rewriters |-> <<>>,
          column_id_sequence_number |-> sequence]
    /\ flags = DefaultFlags
    /\ registry = DefaultRegistry
    /\ analyzer_output =
         [root |-> root, max_column_id |-> 0,
          output_properties |->
            [relevant_rewrites |-> {REWRITE_NULLIFERROR_FUNCTION}]]
    /\ runtime_info = [rewriters_timed_value |-> 0,
                       rewriters_details |-> NoDetails]
    /\ caller_sequence = 0
    /\ draws_wanted = 0
    /\ fallback_sequence_number = 0
    /\ options_for_rewrite = NoOptions
    /\ last_rewrite_result = NullNode
    /\ rewrites_to_apply = {REWRITE_NULLIFERROR_FUNCTION}
    /\ iterations = 1
    /\ idx = 1
    /\ pc = "sweep"
    /\ status = NoStatus
    /\ converted = 0
    /\ entry = [root |-> root, root_kind |-> "stmt", max_column_id |-> 0,
                output_properties |->
                  [relevant_rewrites |-> {REWRITE_NULLIFERROR_FUNCTION}],
                caller_sequence |-> 0]
    /\ sweep_apply = {REWRITE_NULLIFERROR_FUNCTION}
    /\ sweep_log = <<>>
    /\ swept = TRUE
    /\ sweeps_with = NoDetails
    /\ invoked = FALSE
    /\ scanned = TRUE
    /\ pass_log = <<>>
    /\ chained = TRUE
    /\ installed = FALSE
    /\ install_log = <<>>
    /\ column_ids = {}

\* The bundle a rewriter is called with: the one that exists, or the one the
\* lazy initialisation builds for this call.
OptionsForCall ==
  IF options_for_rewrite = NoOptions
    THEN AnalyzerOptionsForRewrite(analyzer_options)
    ELSE options_for_rewrite

\* Lines 235-277 for the NULLIFERROR rule: the sweep reaches the rule and
\* calls its rewriter on the current tree.
NullIfErrorSweep ==
  /\ pc = "sweep"
  /\ NextRewrite(idx) # 0
  /\ LET p == NextRewrite(idx)
         ast_rewrite == registration_order[p]
     IN /\ ast_rewrite = REWRITE_NULLIFERROR_FUNCTION
        /\ RegistryGet(ast_rewrite)
        /\ sweep_log' = Append(sweep_log, ast_rewrite)
        /\ pass_log' = LogInvocation("builtin", 0)
        /\ chained' = (chained /\ RewriterInput = HandedDown)
        /\ runtime_info' =
             [runtime_info EXCEPT !.rewriters_details =
                CountInvocation(@, ast_rewrite)]
        /\ CallRewriter({NullIfErrorFunctionRewriter(OptionsForCall,
                                                     RewriterInput)},
                        "sweep", p + 1, TRUE)
  /\ UNCHANGED <<analyzer_options, flags, registry,
                 rewrites_to_apply, iterations, entry, sweep_apply,
                 installed, install_log>>

NullIfErrorNext == NullIfErrorSweep

SpecNullIfError == NullIfErrorInit /\ [][NullIfErrorNext]_vars

(* ------------- the driver with the per-rule counts followed -------------- *)

\* The calls from which the counts are followed: every set of enabled rules
\* on a statement that has their patterns, with and without user rewriters,
\* under a registry that lists every rule and one that does not.
CountInputs ==
  {in \in ConvergenceInputs :
     /\ in.root.pats = in.options.enabled_rewrites
     /\ in.registry.order[1] # REWRITE_OTHER}

\* The state at the call, with a count of 0 for every rule.
CountsInit ==
  \E in \in CountInputs :
    /\ analyzer_options = in.options
    /\ flags = in.flags
    /\ registry = in.registry
    /\ analyzer_output =
         [root |-> in.root, max_column_id |-> in.max_column_id,
          output_properties |-> [relevant_rewrites |-> in.relevant]]
    /\ runtime_info =
         [rewriters_timed_value |-> 0,
          rewriters_details |-> [r \in ResolvedASTRewrite |-> 0]]
    /\ caller_sequence = in.caller_sequence
    /\ draws_wanted = in.draws
    /\ fallback_sequence_number = 0
    /\ options_for_rewrite = NoOptions
    /\ last_rewrite_result = NullNode
    /\ rewrites_to_apply = {}
    /\ iterations = 0
    /\ idx = 0
    /\ pc = "entry"
    /\ status = NoStatus
    /\ converted = 0
    /\ entry = [root_kind |-> in.root.kind,
                root_pats |-> in.root.pats,
                max_column_id |-> in.max_column_id,
                output_properties |-> [relevant_rewrites |-> in.relevant],
                caller_sequence |-> in.caller_sequence]
    /\ sweep_apply = {}
    /\ sweep_log = <<>>
    /\ swept = FALSE
    /\ sweeps_with = [r \in ResolvedASTRewrite |-> 0]
    /\ invoked = FALSE
    /\ scanned = FALSE
    /\ pass_log = <<>>
    /\ chained = TRUE
    /\ installed = FALSE
    /\ install_log = <<>>
    /\ column_ids = {}

SpecCounts == CountsInit /\ [][Next]_vars

\* ---------------------------------------------------------------------------
\* Properties of the driver.

\* The entry point has returned with success, with an error.
Succeeded == pc = "done" /\ status = OkStatus
Failed == pc = "done" /\ IsError(status)

\* No enabled rule other than anonymization is relevant to the output's root.
FixedPointAtRoot ==
  (FindRelevantRewriters(NodeFromAnalyzerOutput(analyzer_output))
     \cap analyzer_options.enabled_rewrites) \ {REWRITE_ANONYMIZATION} = {}

\* C1 as stated: on every successful return no enabled rule other than
\* anonymization is relevant to the final tree. It fails: a trailing rewriter
\* runs after the last rescan, a leading rewriter can add patterns to a tree
\* the loop is then skipped for, and with the disable-checker flag on the
\* resolver's set decides whether the loop is entered at all.
C1_FixedPointOnSuccess == Succeeded => FixedPointAtRoot

\* C1, amended: on a successful return with no trailing rewriter, if the
\* convergence loop ran a sweep, or there was no leading rewriter and the
\* disable-checker flag was off, no enabled rule other than anonymization is
\* relevant to the final tree.
C1_FixedPointAfterLoop ==
  ( /\ Succeeded
    /\ analyzer_options.trailing_rewriters = <<>>
    /\ \/ swept
       \/ /\ analyzer_options.leading_rewriters = <<>>
          /\ ~flags.disable_rewriter_checker )
  => FixedPointAtRoot

\* A successful return after the loop, with the rewritten tree installed and
\* anonymization, though enabled, still relevant to it.
C1_Witness ==
  /\ Succeeded
  /\ swept
  /\ installed
  /\ analyzer_options.trailing_rewriters = <<>>
  /\ analyzer_output.root.rewritten
  /\ REWRITE_ANONYMIZATION \in
       analyzer_output.root.pats \cap analyzer_options.enabled_rewrites

\* C2 as stated: when the sweep counter exceeds the cap the driver returns the
\* resource-exhausted error and the output holds the root, max_column_id and
\* output properties it held at entry. It fails: the root was released into
\* the current tree before the first rewriter ran and is not put back.
C2_CapLeavesOutputUnchanged ==
  (pc = "done" /\ status = ResourceExhaustedError)
  => /\ NodeFromAnalyzerOutput(analyzer_output) # NullNode
     /\ ~analyzer_output.root.rewritten
     /\ analyzer_output.root.kind = entry.root_kind
     /\ analyzer_output.max_column_id = entry.max_column_id
     /\ analyzer_output.output_properties = entry.output_properties

\* C3: the loop never starts more than kMaxIterations sweeps; the
\* resource-exhausted error is returned only on the increment after the last
\* allowed sweep, with the apply set still non-empty, and names the limit;
\* and when the apply set is non-empty after sweep kMaxIterations the next
\* step returns that error.
C3_BoundedConvergence ==
  /\ [](/\ iterations <= kMaxIterations + 1
        /\ pc = "sweep" => iterations \in 1..kMaxIterations
        /\ pc = "loop_head" => rewrites_to_apply # {}
        /\ status.code = "RESOURCE_EXHAUSTED" =>
             /\ pc = "done"
             /\ status = ResourceExhaustedError
             /\ status.limit = kMaxIterations
             /\ iterations = kMaxIterations + 1
             /\ rewrites_to_apply # {})
  /\ [][(pc = "loop_head" /\ iterations = kMaxIterations)
          => (pc' = "done" /\ status' = ResourceExhaustedError)]_vars

\* The driver has returned the resource-exhausted error on the increment
\* after sweep kMaxIterations.
C3_Witness ==
  /\ pc = "done"
  /\ status = ResourceExhaustedError
  /\ iterations = kMaxIterations + 1
  /\ rewrites_to_apply # {}

\* registration_order restricted to the rules the sweep started with.
SweepOrder ==
  LET InApply(rule) == rule \in sweep_apply
  IN SelectSeq(registration_order, InApply)

IsPrefix(s, t) ==
  /\ Len(s) <= Len(t)
  /\ \A i \in 1..Len(s) : s[i] = t[i]

\* C4: within a sweep the built-in rewriters invoked so far are the leading
\* part of the registration order restricted to the apply set; when the sweep
\* is over they are all of it, each once, and if every rule of the apply set
\* has a position in the registration order they are exactly the apply set.
C4_SweepOrder ==
  /\ IsPrefix(sweep_log, SweepOrder)
  /\ (pc = "sweep" /\ NextRewrite(idx) = 0) =>
       /\ sweep_log = SweepOrder
       /\ Cardinality(Range(sweep_log)) = Len(sweep_log)
       /\ sweep_apply \subseteq Range(registration_order) =>
            Range(sweep_log) = sweep_apply

\* A later sweep is over that invoked two rules, in an order that is not the
\* order of their names.
C4_Witness ==
  /\ pc = "sweep"
  /\ NextRewrite(idx) = 0
  /\ iterations >= 2
  /\ sweep_log = <<REWRITE_OTHER, REWRITE_NULLIFERROR_FUNCTION>>

\* The output is what it was at entry and nothing has been done to it.
OutputAsAtEntry ==
  /\ analyzer_output.root.kind = entry.root_kind
  /\ ~analyzer_output.root.rewritten
  /\ analyzer_output.max_column_id = entry.max_column_id
  /\ analyzer_output.output_properties = entry.output_properties

\* The driver stands before relevance synchronization with no user rewriter
\* and no enabled rule in the detected set.
EarlyExitCase ==
  /\ pc = "driver"
  /\ analyzer_options.leading_rewriters = <<>>
  /\ analyzer_options.trailing_rewriters = <<>>
  /\ analyzer_options.enabled_rewrites
       \cap DetectedRewrites(
              analyzer_output.output_properties.relevant_rewrites,
              FindRelevantRewriters(NodeFromAnalyzerOutput(analyzer_output)))
     = {}

\* C5: the output is untouched until relevance synchronization, and when the
\* enabled rules and the detected set do not meet and both user lists are
\* empty, the step that has detected the set returns success, with no
\* rewriter invoked, no bundle built, the root not released and the output
\* as it was.
C5_EarlyExitLaw ==
  /\ [](pc \in {"entry", "driver"} =>
          /\ OutputAsAtEntry
          /\ ~invoked
          /\ options_for_rewrite = NoOptions)
  /\ [][(EarlyExitCase /\ status'.origin \notin {"scanner", "cross_check"})
          => /\ pc' = "done"
             /\ status' = OkStatus
             /\ analyzer_output' = analyzer_output
             /\ options_for_rewrite' = NoOptions
             /\ last_rewrite_result' = NullNode
             /\ ~invoked']_vars

\* The driver has returned from an early exit on a root that has patterns,
\* none of them enabled.
C5_Witness ==
  /\ Succeeded
  /\ converted = 1
  /\ ~invoked
  /\ options_for_rewrite = NoOptions
  /\ runtime_info.rewriters_timed_value = 1
  /\ analyzer_options.leading_rewriters = <<>>
  /\ analyzer_options.trailing_rewriters = <<>>
  /\ FindRelevantRewriters(analyzer_output.root) # {}
  /\ OutputAsAtEntry

\* C6 as stated: on every error return the output holds no rewritten tree.
\* It fails: the rewritten tree is installed before the validator runs, and a
\* validator error is returned with it in place.
C6_NoInstallOnFailure ==
  Failed => (~installed /\ ~analyzer_output.root.rewritten)

\* C7 as stated: on every successful return the output holds a statement or
\* an expression. It fails: a call whose output holds neither returns success
\* at once.
C7_RootPresentOnSuccess ==
  Succeeded => NodeFromAnalyzerOutput(analyzer_output) # NullNode

\* C7, amended: on every successful return for an output that held a root at
\* entry, the output holds a statement or an expression.
C7_RootPresentIfAtEntry ==
  (Succeeded /\ entry.root_kind # "null")
  => /\ NodeFromAnalyzerOutput(analyzer_output) # NullNode
     /\ analyzer_output.root.kind \in NodeKinds

\* A successful return with a rewritten expression installed.
C7_Witness ==
  /\ Succeeded
  /\ installed
  /\ analyzer_output.root.kind = "expr"
  /\ analyzer_output.root.rewritten

\* C8 as stated: every column id drawn during the rewrite is above the
\* max_column_id the output had at entry. It fails with a sequence the caller
\* supplied: the driver does not advance it.
C8_ColumnIdsAboveMax ==
  \A id \in column_ids : id > entry.max_column_id

\* C8, amended: every column id drawn from the fallback sequence is above the
\* max_column_id the output had at entry; one drawn from the caller's
\* sequence is at or after the position the caller gave it.
C8_ColumnIdsBySequence ==
  \A id \in column_ids :
    /\ options_for_rewrite # NoOptions
    /\ options_for_rewrite.column_id_sequence_number = "fallback"
         => id > entry.max_column_id
    /\ options_for_rewrite.column_id_sequence_number = "caller"
         => id >= entry.caller_sequence

\* A rewriter has drawn from the fallback sequence after an entry with the
\* largest max_column_id.
C8_Witness ==
  /\ column_ids # {}
  /\ options_for_rewrite # NoOptions
  /\ options_for_rewrite.column_id_sequence_number = "fallback"
  /\ entry.max_column_id = MaxColumnId
  /\ invoked

\* C9: when the caller supplied no sequence, building the bundle leaves the
\* fallback sequence above max_column_id, whatever max_column_id is and
\* wherever the sequence stood, so the first id drawn from the bundle is
\* above max_column_id.
C9_FallbackAdvanced ==
  (pc \in {"options_built", "options_drawn"}
     /\ analyzer_options.column_id_sequence_number = "null")
  => /\ options_for_rewrite.column_id_sequence_number = "fallback"
     /\ fallback_sequence_number > analyzer_output.max_column_id
     /\ \A id \in column_ids : id > analyzer_output.max_column_id

\* The first id was drawn from a fallback sequence that started below a
\* positive max_column_id, and is the one after it.
C9_Witness ==
  /\ pc = "options_drawn"
  /\ analyzer_options.column_id_sequence_number = "null"
  /\ analyzer_output.max_column_id >= 2
  /\ column_ids = {analyzer_output.max_column_id + 1}

\* C10 as stated: every error the entry point returns has passed through the
\* error-location conversion exactly once. It fails for the error of the
\* pre-rewrite callback, which is returned as it is.
C10_EveryErrorConverted == Failed => converted = 1

\* C10, amended: every error the entry point returns other than the
\* pre-rewrite callback's has passed through the error-location conversion
\* exactly once; the callback's has not.
C10_DriverErrorsConverted ==
  /\ converted <= 1
  /\ Failed =>
       converted = IF status.origin = "pre_rewrite_callback" THEN 0 ELSE 1

\* The update of the output failed and its error was converted.
C10_Witness ==
  /\ Failed
  /\ status.origin = "update"
  /\ converted = 1

\* C11: when no rule is enabled or the output holds no root, the entry point,
\* unless the pre-rewrite callback fails, returns success in that step: the
\* scanner has not run, no rewriter of any pass has been invoked, no bundle
\* has been built and the output and its timing are as they were, whatever
\* the user rewriter lists hold.
C11_NoWorkWithoutRulesOrRoot ==
  [][(/\ pc = "entry"
      /\ \/ analyzer_options.enabled_rewrites = {}
         \/ NodeFromAnalyzerOutput(analyzer_output) = NullNode
      /\ status'.origin # "pre_rewrite_callback")
     => /\ pc' = "done"
        /\ status' = OkStatus
        /\ ~scanned'
        /\ ~invoked'
        /\ pass_log' = <<>>
        /\ options_for_rewrite' = NoOptions
        /\ analyzer_output' = analyzer_output
        /\ runtime_info' = runtime_info]_vars

\* The entry point has returned success at once for a root that has patterns,
\* with no rule enabled and a leading and a trailing rewriter in the lists.
C11_Witness ==
  /\ Succeeded
  /\ converted = 0
  /\ analyzer_options.enabled_rewrites = {}
  /\ analyzer_options.leading_rewriters # <<>>
  /\ analyzer_options.trailing_rewriters # <<>>
  /\ FindRelevantRewriters(analyzer_output.root) # {}
  /\ ~invoked
  /\ ~scanned

\* The entries of pass_log for the user rewriters of one list, in list order.
UserEntries(pass, list) ==
  [i \in 1..Len(list) |-> [pass |-> pass, rewriter |-> list[i]]]

\* What pass_log is when the three passes ran to their end: the leading
\* rewriters in list order, the mark of the built-in rewriters if any ran,
\* the trailing rewriters in list order.
PassSequences ==
  {UserEntries("leading", analyzer_options.leading_rewriters)
     \o mark
     \o UserEntries("trailing", analyzer_options.trailing_rewriters) :
   mark \in {<<>>, <<[pass |-> "builtin", rewriter |-> 0]>>}}

RECURSIVE Subtrees(_)
Subtrees(node) ==
  {node} \cup UNION {Subtrees(node.argument_list[i]) :
                       i \in 1..Len(node.argument_list)}

NullIfErrorCalls(tree) ==
  {n \in Subtrees(tree) : n.function = FN_NULLIFERROR}

RECURSIVE Replaced(_, _)
Replaced(in, out) ==
  IF in.function = FN_NULLIFERROR
    THEN /\ out.node_kind = "ResolvedFunctionCall"
         /\ out.function = FN_IFERROR
         /\ out.hint_list_size = 0
         /\ Len(out.argument_list) = 2
         /\ Replaced(in.argument_list[1], out.argument_list[1])
         /\ out.argument_list[2].node_kind = "ResolvedLiteral"
         /\ out.argument_list[2].is_null
         /\ out.argument_list[2].has_explicit_type
         /\ out.argument_list[2].type = in.argument_list[1].type
         /\ out.argument_list[2].type = out.argument_list[1].type
    ELSE /\ [out EXCEPT !.argument_list = <<>>]
              = [in EXCEPT !.argument_list = <<>>]
         /\ Len(out.argument_list) = Len(in.argument_list)
         /\ \A i \in 1..Len(in.argument_list) :
              Replaced(in.argument_list[i], out.argument_list[i])

C13_NullIfErrorReplaced ==
  (/\ invoked
   /\ \A n \in NullIfErrorCalls(entry.root) :
        Len(n.argument_list) = 1 /\ n.hint_list_size = 0)
  => /\ pc = "sweep"
     /\ status = NoStatus
     /\ NullIfErrorCalls(last_rewrite_result) = {}
     /\ Replaced(entry.root, last_rewrite_result)

\* A NULLIFERROR call that is the argument of another one has been rewritten.
C13_Witness ==
  /\ invoked
  /\ pc = "sweep"
  /\ \A n \in NullIfErrorCalls(entry.root) :
       Len(n.argument_list) = 1 /\ n.hint_list_size = 0
  /\ \E n \in NullIfErrorCalls(entry.root) :
       n.argument_list[1].function = FN_NULLIFERROR
  /\ \E n \in Subtrees(last_rewrite_result) :
       /\ n.function = FN_IFERROR
       /\ n.argument_list[1].function = FN_IFERROR
       /\ n.argument_list[2] = NullLiteral("STRING")
  /\ NullIfErrorCalls(last_rewrite_result) = {}


(* C14: if the tree contains a NULLIFERROR call with hints, and every
   NULLIFERROR call without hints has exactly one argument, the NULLIFERROR
   rewriter returns an unimplemented error and no tree, and the driver
   returns that error, converted, with no rewriter invoked after it. *)
HintedCalls(tree) == {n \in NullIfErrorCalls(tree) : n.hint_list_size > 0}

HintRejected ==
  /\ pc = "done"
  /\ status = ErrorStatus("UNIMPLEMENTED", "rewriter")
  /\ converted = 1
  /\ last_rewrite_result = NullNode
  /\ sweep_log = <<REWRITE_NULLIFERROR_FUNCTION>>
  /\ pass_log = <<[pass |-> "builtin", rewriter |-> 0]>>
  /\ ~installed

C14_HintRejectedWellFormed ==
  (/\ invoked
   /\ HintedCalls(entry.root) # {}
   /\ \A n \in NullIfErrorCalls(entry.root) \ HintedCalls(entry.root) :
        Len(n.argument_list) = 1)
  => HintRejected

\* The statement without the condition on the other NULLIFERROR calls: a
\* call without hints and without exactly one argument that is visited
\* before the hinted one fails its RET_CHECK first.
C14_HintRejected ==
  (invoked /\ HintedCalls(entry.root) # {}) => HintRejected

\* A hinted NULLIFERROR call over a well-formed one has been rejected.
C14_Witness ==
  /\ HintRejected
  /\ \E n \in HintedCalls(entry.root) :
       /\ Len(n.argument_list) = 1
       /\ n.argument_list[1].function = FN_NULLIFERROR
       /\ n.argument_list[1].hint_list_size = 0
       /\ Len(n.argument_list[1].argument_list) = 1

(* C15: when a rewriter invocation of any pass returns an error, the driver
   returns that error at once and does nothing further: the step that calls
   the rewriter is the driver's last, so that no rewriter, sweep, rescan,
   Update, validator or mark-fields-accessed step follows, and the output is
   not installed. *)
C15_ErrorAborts ==
  [][/\ pc # "done"
     /\ (pc \in {"leading", "sweep", "trailing"}
           /\ status'.origin = "rewriter")
        => /\ pc' = "done"
           /\ IsError(status')
           /\ converted' = 1
           /\ Len(pass_log') <= Len(pass_log) + 1
           /\ ~installed'
           /\ install_log' = <<>>
           /\ runtime_info' = runtime_info
           /\ scanned' = scanned
           /\ iterations' = iterations]_vars

\* A trailing rewriter failed after a leading rewriter and a sweep had run.
C15_Witness ==
  /\ pc = "done"
  /\ status.origin = "rewriter"
  /\ Len(pass_log) = 3
  /\ pass_log[3].pass = "trailing"
  /\ Len(analyzer_options.trailing_rewriters) > 0
  /\ ~installed
  /\ install_log = <<>>

\* C16 as stated: a sweep whose rules to apply include one without a rewriter
\* in the registry ends in the invariant-violation error that names the
\* rule, unless a rewriter before it failed; the rule is not skipped and the
\* driver does not go on to the rescan. It fails: the sweep walks
\* registration_order, which has no entry for an unregistered rule, so the
\* lookup and its RET_CHECK are never reached for it.
C16_MissingRewriterFails ==
  (swept /\ \E r \in sweep_apply : ~RegistryGet(r))
  => \/ pc = "sweep" /\ NextRewrite(idx) # 0
     \/ /\ pc = "done"
        /\ \/ status.origin \in {"rewriter", "null_result"}
           \/ \E r \in sweep_apply :
                ~RegistryGet(r) /\ status = MissingRewriterError(r)

(* C17: with the disable-checker flag on and debug assertions off, the
   scanner is not invoked on the entry root: up to the end of the first
   sweep it has not run, and the leading pass and the first sweep work with
   the enabled rules of the resolver's relevance set. The rescan after each
   sweep invokes the scanner whatever the flag says. *)
CheckerDisabled == flags.disable_rewriter_checker /\ ~flags.debug_mode

C17_ScannerOnlyAfterSweep ==
  CheckerDisabled
  => /\ scanned => swept
     /\ (~scanned /\ pc \in {"leading", "loop_head", "sweep"})
        => rewrites_to_apply =
             analyzer_options.enabled_rewrites
               \cap entry.output_properties.relevant_rewrites

\* The statement as it stands: the scanner is not invoked at any point of
\* the call. It fails at the rescan that follows the first sweep.
C17_ScannerNeverInvoked == CheckerDisabled => ~scanned

\* The first sweep runs on the resolver's set, which is not what the scanner
\* would have found on the root.
C17_Witness ==
  /\ CheckerDisabled
  /\ pc = "sweep"
  /\ ~scanned
  /\ ~invoked
  /\ sweep_apply # {}
  /\ sweep_apply # analyzer_options.enabled_rewrites
                     \cap FindRelevantRewriters(analyzer_output.root)

(* C18: with debug assertions on, a non-empty resolver set that differs from
   the scanner's result on the entry root makes the driver fail with an
   invariant violation, before any rewriter is invoked and with the root
   still in the output; with an empty resolver set, or debug assertions off,
   there is no such error. *)
C18_DebugCrossCheck ==
  [][pc = "driver"
     => LET resolver == analyzer_output.output_properties.relevant_rewrites
            root == NodeFromAnalyzerOutput(analyzer_output)
            differ == /\ flags.debug_mode
                      /\ root # NullNode
                      /\ resolver # {}
                      /\ resolver # FindRelevantRewriters(root)
        IN /\ (differ /\ status'.origin # "scanner")
              => /\ status' = RetCheckError("cross_check")
                 /\ pc' = "done"
                 /\ converted' = 1
                 /\ ~invoked'
                 /\ options_for_rewrite' = NoOptions
                 /\ analyzer_output' = analyzer_output
                 /\ NodeFromAnalyzerOutput(analyzer_output') # NullNode
           /\ status'.origin = "cross_check" => differ]_vars

\* The cross-check failed on a resolver set that names an enabled rule the
\* root does not need.
C18_Witness ==
  /\ pc = "done"
  /\ status = RetCheckError("cross_check")
  /\ flags.debug_mode
  /\ ~invoked
  /\ NodeFromAnalyzerOutput(analyzer_output) # NullNode
  /\ analyzer_output.output_properties.relevant_rewrites
       \cap analyzer_options.enabled_rewrites # {}
  /\ analyzer_output.output_properties.relevant_rewrites
       # FindRelevantRewriters(analyzer_output.root)

(* C19: the anonymization rewriter is invoked at most once in a driver call,
   in the first sweep: the rule is out of the rules to apply after every
   sweep, and a rescan that finds no enabled rule but anonymization ends the
   loop, with neither another sweep nor the iteration-cap error. *)
C19_AnonymizationOnce ==
  [][/\ REWRITE_ANONYMIZATION \in Range(sweep_log')
        => /\ iterations' = 1
           /\ Cardinality({k \in 1..Len(sweep_log') :
                             sweep_log'[k] = REWRITE_ANONYMIZATION}) = 1
     /\ (swept' /\ pc' = "loop_head")
        => REWRITE_ANONYMIZATION \notin rewrites_to_apply'
     /\ (pc' = "sweep" /\ iterations' > 1)
        => REWRITE_ANONYMIZATION \notin rewrites_to_apply'
     /\ (/\ pc = "sweep"
         /\ NextRewrite(idx) = 0
         /\ last_rewrite_result # NullNode
         /\ status'.origin # "scanner"
         /\ (analyzer_options.enabled_rewrites
               \cap FindRelevantRewriters(last_rewrite_result))
              \subseteq {REWRITE_ANONYMIZATION})
        => /\ pc' = "accumulate"
           /\ rewrites_to_apply' = {}
           /\ status' = status]_vars

\* The loop has ended after a sweep although the scanner still finds the
\* enabled anonymization rule in the current tree.
C19_Witness ==
  /\ pc = "accumulate"
  /\ swept
  /\ invoked
  /\ REWRITE_ANONYMIZATION \in
       analyzer_options.enabled_rewrites
         \cap FindRelevantRewriters(last_rewrite_result)
  /\ rewrites_to_apply = {}

(* C20: in a driver call the options bundle is built at most once and the
   output's root released at most once, both at the first rewriter
   invocation of whatever pass; every later invocation has the same bundle
   and the same column-id sequence, which moves by the rewriters' draws
   only; without an invocation the bundle is never built and the root never
   released. *)
C20_LazySingleInitialisation ==
  [][/\ options_for_rewrite # NoOptions
        => /\ options_for_rewrite' = options_for_rewrite
           /\ pc # "install" => analyzer_output' = analyzer_output
           /\ fallback_sequence_number' - fallback_sequence_number
                = IF options_for_rewrite.column_id_sequence_number
                       = "fallback"
                    THEN Cardinality(column_ids' \ column_ids) ELSE 0
           /\ caller_sequence' - caller_sequence
                = IF options_for_rewrite.column_id_sequence_number = "caller"
                    THEN Cardinality(column_ids' \ column_ids) ELSE 0
     /\ (options_for_rewrite = NoOptions /\ options_for_rewrite' # NoOptions)
        => /\ pc \in {"leading", "sweep", "trailing"}
           /\ ~invoked /\ invoked'
           /\ options_for_rewrite' = AnalyzerOptionsForRewrite(analyzer_options)
           /\ NodeFromAnalyzerOutput(analyzer_output) # NullNode
           /\ NodeFromAnalyzerOutput(analyzer_output') = NullNode
     /\ (options_for_rewrite' = NoOptions)
        => /\ ~invoked'
           /\ analyzer_output' = analyzer_output
           /\ fallback_sequence_number' = fallback_sequence_number
     /\ invoked' => options_for_rewrite' # NoOptions]_vars

\* A trailing rewriter, invoked third, used the bundle that the leading
\* rewriter's invocation built, on the fallback sequence.
C20_Witness ==
  /\ Len(pass_log) = 3
  /\ pass_log[1].pass = "leading"
  /\ pass_log[3].pass = "trailing"
  /\ options_for_rewrite = AnalyzerOptionsForRewrite(analyzer_options)
  /\ options_for_rewrite.column_id_sequence_number = "fallback"
  /\ pc = "install"
  /\ NodeFromAnalyzerOutput(analyzer_output) = NullNode

(* C21: Update is called exactly when a bundle was built and all passes
   completed without error; the validator runs only after Update succeeded;
   the mark-fields-accessed traversal runs only after the validator
   succeeded or was skipped and is the last step on the tree; without a
   bundle none of the three runs. *)
InstallSequences ==
  {<<>>, <<"update">>, <<"update", "validate">>, <<"update", "mark">>,
   <<"update", "validate", "mark">>}

C21_InstallationSequencing ==
  /\ install_log \in InstallSequences
  /\ options_for_rewrite = NoOptions => install_log = <<>>
  /\ install_log # <<>>
     => /\ pc \in {"validate", "mark", "final_check", "done"}
        /\ pass_log \in PassSequences
        /\ status.origin \in {"", "validator", "null_expr", "no_root"}
  /\ (/\ pc \in {"validate", "mark", "final_check"} \/ Succeeded
      /\ options_for_rewrite # NoOptions)
     => install_log # <<>>
  /\ pc = "validate" => install_log = <<"update">>
  /\ pc = "mark" => install_log \in {<<"update">>, <<"update", "validate">>}
  /\ status.origin = "update" => install_log = <<>>
  /\ status.origin = "validator" => install_log = <<"update", "validate">>
  /\ status.origin \in {"rewriter", "null_result", "scanner", "iteration_cap"}
     => install_log = <<>>

\* A successful call on which Update, the validator and the traversal ran.
C21_Witness ==
  /\ Succeeded
  /\ install_log = <<"update", "validate", "mark">>
  /\ installed
  /\ options_for_rewrite # NoOptions

\* C22 as stated: on a successful run without early exit the overall timer
\* is accumulated into rewriters_timed_value exactly once, and only after
\* the leading pass, the convergence loop and the trailing pass have all
\* completed. It fails: the accumulation at line 293 stands between the
\* convergence loop and the trailing pass, so the trailing rewriters run
\* after it.
C22_TimerAfterAllPasses ==
  [][/\ (/\ runtime_info'.rewriters_timed_value
              # runtime_info.rewriters_timed_value
         /\ pc # "driver")
        => /\ runtime_info.rewriters_timed_value = 0
           /\ runtime_info'.rewriters_timed_value = 1
           /\ pc' \notin {"leading", "loop_head", "sweep", "trailing"}
     /\ (pc = "final_check" /\ status' = OkStatus)
        => runtime_info.rewriters_timed_value = 1]_vars

(* C23: for every rule the count of rewriters_details rises by the number of
   invocations of the rule's rewriter, which is the number of sweeps that
   reached the rule: the sweeps that began with the rule in the rules to
   apply, for a rule the registry lists, less the sweep that failed at a
   rule before it; leading and trailing invocations change no count. *)
ReachedBySweeps(r) ==
  IF r \notin Range(registration_order) THEN 0
  ELSE IF r \in sweep_apply /\ r \notin Range(sweep_log)
    THEN sweeps_with[r] - 1
  ELSE sweeps_with[r]

C23_CountsAreSweepsReached ==
  [][/\ \A r \in ResolvedASTRewrite :
          /\ runtime_info'.rewriters_details[r] = ReachedBySweeps(r)'
          /\ runtime_info'.rewriters_details[r]
               - runtime_info.rewriters_details[r]
               = IF sweep_log' = Append(sweep_log, r) THEN 1 ELSE 0
     /\ pc \in {"leading", "trailing"}
        => runtime_info'.rewriters_details = runtime_info.rewriters_details
    ]_vars

\* The statement as it stands: at the end of a call the count of every rule
\* is the number of sweeps that began with the rule in the rules to apply.
\* It fails for a rule behind the one whose rewriter failed in the last
\* sweep, and for a rule the registry does not list.
C23_CountsAreSweeps ==
  pc = "done"
  => \A r \in ResolvedASTRewrite :
       runtime_info.rewriters_details[r] = sweeps_with[r]

\* A successful call with a leading and a trailing rewriter and two sweeps:
\* one rule was invoked in both, the anonymization rule in the first.
C23_Witness ==
  /\ Succeeded
  /\ Len(pass_log) = 3
  /\ runtime_info.rewriters_details[REWRITE_NULLIFERROR_FUNCTION] = 2
  /\ runtime_info.rewriters_details[REWRITE_ANONYMIZATION] = 1
  /\ runtime_info.rewriters_details[REWRITE_OTHER] = 0
  /\ sweeps_with[REWRITE_NULLIFERROR_FUNCTION] = 2

\* C24 as stated: a null root that a rewriter of any pass returns with
\* success becomes an invariant-violation error at once, so that every tree
\* handed to a rewriter, to the rescan after a sweep and to Update is
\* non-null. It fails: only the sweep checks the result of its rewriters
\* (lines 265-267); the leading and the trailing loop store what the
\* rewriter returned and go on.
C24_CurrentTreeNonNull ==
  /\ (pc \in {"leading", "trailing"} \/ (pc = "sweep" /\ NextRewrite(idx) # 0))
     => RewriterInput # NullNode
  /\ (pc = "sweep" /\ NextRewrite(idx) = 0 /\ invoked)
     => last_rewrite_result # NullNode
  /\ (pc = "install" /\ options_for_rewrite # NoOptions)
     => last_rewrite_result # NullNode

(* C25: the rules of the first sweep are the enabled rules in the relevance
   set detected on the tree as it was at entry, whatever the leading
   rewriters made of it; the leading pass's tree is scanned only by the
   rescan that follows the first sweep; and if no enabled rule was detected
   at entry there is no sweep and no rescan. *)
EntryApply ==
  analyzer_options.enabled_rewrites
    \cap (IF flags.disable_rewriter_checker
            THEN entry.output_properties.relevant_rewrites
            ELSE entry.root_pats)

====
